---- MODULE Spec2Model ----
(***************************************************************************)
(* WSJF backend (Wyoc/bsd-wsjf): the model layer (sub-value aggregates,    *)
(* Fibonacci validation, the WSJF score, batch validation), the ranking    *)
(* engine, and the item / Program Increment services over the shared       *)
(* database connection.                                                    *)
(*                                                                         *)
(* Level of abstraction.  Every SQL statement is modelled by its           *)
(* relational meaning against the schema of core/database_factory.py       *)
(* (UNIQUE name, CHECK end_date > start_date, FOREIGN KEY ... ON DELETE    *)
(* CASCADE, autocommit off, one connection shared by both services).       *)
(* Driver plumbing is not modelled: the placeholder style of a statement,  *)
(* the cursor object a call returns, and the JobSizeSubValues import of    *)
(* wsjf_service.py (models/wsjf_item.py declares job_size as a plain       *)
(* int, which is what the model uses).  Column types are modelled where a  *)
(* statement computes with a column (the statistics query of               *)
(* pi_service.py).                                                         *)
(*                                                                         *)
(* Encodings.  An optional value (x | None) is a sequence of length <= 1:  *)
(* <<>> is None and <<v>> is v.  A float rounded to two decimals is the    *)
(* integer number of hundredths.  A UUID is a positive integer, a          *)
(* timestamp a natural number.                                             *)
(***************************************************************************)
EXTENDS Integers, Sequences, FiniteSets, TLC

None == <<>>
Some(v) == <<v>>

(***************************************************************************)
(* Bounds of the model.                                                    *)
(***************************************************************************)
MaxRaw == 22
MaxPresent == 2
MaxBatchLen == 102
MaxRank == 3
MaxPis == 2
MaxItems == 2
MaxStored == 3
MaxSampleIds == 7
MaxConnections == 2
MaxClients == 2
MaxExport == 9

(***************************************************************************)
(* models/wsjf_item.py                                                     *)
(***************************************************************************)
FIBONACCI_VALUES == {1, 2, 3, 5, 8, 13, 21}

MAX_BATCH_ITEMS == 100

\* The twelve fields of WSJFSubValues, in declaration order.
SubValueFields ==
    << "pms_business", "pos_business", "bos_agri_business",
       "bos_cabinet_business", "consultants_business", "dev_business",
       "dev_technical", "ia_business", "ia_technical", "devops_business",
       "devops_technical", "support_business" >>

SubValueKeys == { SubValueFields[i] : i \in 1..Len(SubValueFields) }

\* A WSJFSubValues object: every field holds an optional integer.
\* SubValues(m) builds one from the keyword arguments m (a function from
\* some of the field names to integers); a field not given defaults to None.
SubValues(m) ==
    [ k \in SubValueKeys |-> IF k \in DOMAIN m THEN Some(m[k]) ELSE None ]

\* validate_fibonacci_values with the off-by-one slip of a range test in
\* place of the membership test.
validate_fibonacci_values_range(v) ==
    IF v # None /\ ~(v[1] >= 1 /\ v[1] <= 21)
    THEN [ok |-> FALSE, value |-> v]
    ELSE [ok |-> TRUE, value |-> v]

\* WSJFSubValues.validate_fibonacci_values: ValueError unless v is None or
\* a member of FIBONACCI_VALUES; returns v unchanged.
validate_fibonacci_values(v) ==
    IF v # None /\ v[1] \notin FIBONACCI_VALUES
    THEN [ok |-> FALSE, value |-> v]
    ELSE [ok |-> TRUE, value |-> v]

\* Construction of a WSJFSubValues: the "*" validator runs on every field.
SubValuesValid(sv) ==
    \A k \in SubValueKeys : validate_fibonacci_values(sv[k]).ok

\* values = [v for v in self.model_dump().values() if v is not None]
RECURSIVE PresentValues(_, _)
PresentValues(sv, i) ==
    IF i > Len(SubValueFields) THEN << >>
    ELSE LET v == sv[SubValueFields[i]]
         IN  IF v # None THEN << v[1] >> \o PresentValues(sv, i + 1)
             ELSE PresentValues(sv, i + 1)

\* Python's max() over a non-empty list.
RECURSIVE PyMax(_)
PyMax(s) ==
    IF Len(s) = 1 THEN s[1]
    ELSE LET m == PyMax(Tail(s))
         IN  IF m > s[1] THEN m ELSE s[1]

\* calculate_max_value that returns the first present value.
calculate_max_value_first(sv) ==
    LET values == PresentValues(sv, 1)
    IN  IF values # << >> THEN values[1] ELSE 0

\* WSJFSubValues.calculate_max_value
calculate_max_value(sv) ==
    LET values == PresentValues(sv, 1)
    IN  IF values # << >> THEN PyMax(values) ELSE 0

\* WSJFItemBase.validate_at_least_one_value
validate_at_least_one_value(sv) == calculate_max_value(sv) # 0

\* WSJFItemBase.validate_job_size_fibonacci (job_size: int, required)
validate_job_size_fibonacci(v) ==
    IF v \notin FIBONACCI_VALUES
    THEN [ok |-> FALSE, value |-> v]
    ELSE [ok |-> TRUE, value |-> v]

\* Python's round(num / den, 2), in hundredths.  For the quotients that
\* arise here (num <= 63, den a Fibonacci value) the only exact ties are
\* eighths, which binary floats represent exactly, so round() rounds the
\* exact quotient half to even.
RoundHundredths(num, den) ==
    LET q == (100 * num) \div den
        r == (100 * num) % den
    IN  IF 2 * r < den THEN q
        ELSE IF 2 * r > den THEN q + 1
        ELSE IF q % 2 = 0 THEN q ELSE q + 1

\* wsjf_score that truncates instead of rounding.
wsjf_score_truncated(item) ==
    ( 100 * ( calculate_max_value(item.business_value)
              + calculate_max_value(item.time_criticality)
              + calculate_max_value(item.risk_reduction) ) ) \div item.job_size

\* WSJFItem.wsjf_score
wsjf_score(item) ==
    LET business_score == calculate_max_value(item.business_value)
        time_score == calculate_max_value(item.time_criticality)
        risk_score == calculate_max_value(item.risk_reduction)
    IN  RoundHundredths(business_score + time_score + risk_score, item.job_size)

\* WSJFStatus (models/status.py)
WSJFStatus == {"New", "Go", "No Go"}

\* A WSJFItemCreate payload.  program_increment_id is a UUID.
Payload(subject, description, bv, tc, rr, js, status, owner, team, pi) ==
    [ subject |-> subject, description |-> description,
      business_value |-> SubValues(bv), time_criticality |-> SubValues(tc),
      risk_reduction |-> SubValues(rr), job_size |-> js, status |-> status,
      owner |-> owner, team |-> team, program_increment_id |-> pi ]

\* Validation of WSJFItemBase / WSJFItemCreate: the Field constraints and
\* the three field validators.  String lengths are abstracted to "the
\* subject is not empty".
WSJFItemCreateValid(p) ==
    /\ p.subject # ""
    /\ \A f \in {"business_value", "time_criticality", "risk_reduction"} :
          SubValuesValid(p[f]) /\ validate_at_least_one_value(p[f])
    /\ validate_job_size_fibonacci(p.job_size).ok
    /\ p.status \in WSJFStatus

\* WSJFItem(**item_data.model_dump()): id from uuid4, created_date from
\* datetime.utcnow().
WSJFItem(p, id, created_date) ==
    p @@ [ id |-> id, created_date |-> created_date ]

\* The validators of WSJFItemBase run again whenever a WSJFItem is built,
\* from a payload or from a stored row.
WSJFItemValid(item) == WSJFItemCreateValid(item)

FactorFields == {"business_value", "time_criticality", "risk_reduction"}

\* A WSJFSubValues object built from the keyword arguments m, with the set
\* of fields that were given (model_fields_set).
ParsedSubValues(m) == [ object |-> SubValues(m), fields_set |-> DOMAIN m ]

\* WSJFItemUpdate.validate_job_size_fibonacci (job_size: int | None)
WSJFItemUpdate_validate_job_size_fibonacci(v) ==
    IF v # None /\ v[1] \notin FIBONACCI_VALUES
    THEN [ok |-> FALSE, value |-> v]
    ELSE [ok |-> TRUE, value |-> v]

\* A WSJFItemUpdate object is a function from the fields the request sets
\* to their values: None for an explicit null, Some(v) otherwise, the v of
\* a factor being a ParsedSubValues.  Validation: the Field constraints,
\* the validator of every aggregate, the job_size validator and the status
\* enumeration; no validator asks an aggregate to hold a value.
WSJFItemUpdateValid(patch) ==
    /\ ( "subject" \in DOMAIN patch /\ patch.subject # None )
          => patch.subject[1] # ""
    /\ \A f \in FactorFields \cap DOMAIN patch :
          patch[f] # None => SubValuesValid(patch[f][1].object)
    /\ "job_size" \in DOMAIN patch
          => WSJFItemUpdate_validate_job_size_fibonacci(patch.job_size).ok
    /\ ( "status" \in DOMAIN patch /\ patch.status # None )
          => patch.status[1] \in WSJFStatus

\* validate_items_not_empty with the upper limit test off by one.
validate_items_not_empty_off_by_one(v) ==
    IF Len(v) = 0 THEN [ok |-> FALSE, error |-> "At least one item is required"]
    ELSE IF Len(v) >= MAX_BATCH_ITEMS
         THEN [ok |-> FALSE, error |-> "Maximum 100 items allowed per batch"]
         ELSE [ok |-> TRUE, error |-> ""]

\* WSJFItemBatch.validate_items_not_empty
validate_items_not_empty(v) ==
    IF Len(v) = 0 THEN [ok |-> FALSE, error |-> "At least one item is required"]
    ELSE IF Len(v) > MAX_BATCH_ITEMS
         THEN [ok |-> FALSE, error |-> "Maximum 100 items allowed per batch"]
         ELSE [ok |-> TRUE, error |-> ""]

\* Construction of a WSJFItemBatch: every element is validated as a
\* WSJFItemCreate, then the field validator runs on the list.
WSJFItemBatch(v) ==
    IF \E i \in 1..Len(v) : ~WSJFItemCreateValid(v[i])
    THEN [ok |-> FALSE, error |-> "ValidationError"]
    ELSE validate_items_not_empty(v)

(***************************************************************************)
(* services/wsjf_service.py: the ranking engine                            *)
(***************************************************************************)
\* sorted(items, key=lambda x: x.wsjf_score, reverse=True) as an insertion
\* that puts a new element in front of the elements of equal score.
InsertByScoreUnstable(sorted, x) ==
    LET p == Cardinality({ i \in 1..Len(sorted) :
                              wsjf_score(sorted[i]) > wsjf_score(x) })
    IN  SubSeq(sorted, 1, p) \o << x >> \o SubSeq(sorted, p + 1, Len(sorted))

\* One step of the stable descending sort: x goes behind every element
\* whose score is greater than or equal to its own.
InsertByScore(sorted, x) ==
    LET p == Cardinality({ i \in 1..Len(sorted) :
                              wsjf_score(sorted[i]) >= wsjf_score(x) })
    IN  SubSeq(sorted, 1, p) \o << x >> \o SubSeq(sorted, p + 1, Len(sorted))

\* sorted(items, key=lambda x: x.wsjf_score, reverse=True): stable, so
\* elements of equal score keep their input order.
RECURSIVE SortedByScore(_)
SortedByScore(items) ==
    IF items = << >> THEN << >>
    ELSE InsertByScore(SortedByScore(SubSeq(items, 1, Len(items) - 1)),
                       items[Len(items)])

\* _add_priorities numbering the items from 0.
add_priorities_from_zero(items) ==
    LET sorted_items == SortedByScore(items)
    IN  [ i \in 1..Len(sorted_items) |->
            sorted_items[i] @@ [ priority |-> i - 1 ] ]

\* WSJFService._add_priorities
add_priorities(items) ==
    LET sorted_items == SortedByScore(items)
    IN  [ i \in 1..Len(sorted_items) |->
            sorted_items[i] @@ [ priority |-> i ] ]

(***************************************************************************)
(* State.                                                                  *)
(*   call, out     a call of a function of the model layer or the ranking  *)
(*                 engine and its result                                   *)
(*   db            the committed tables of the database                    *)
(*   tx            the tables as the shared connection sees them           *)
(*                 (committed rows plus its own uncommitted changes)       *)
(*   failed        the connection's transaction is aborted by an error:    *)
(*                 tx then holds what the transaction had written, none    *)
(*                 of which can be read or committed any more              *)
(*   issued_pis, issued_items   number of UUIDs drawn so far               *)
(*   clock         the last value read from datetime.utcnow()              *)
(*   ret           the last request to a service or endpoint, and its      *)
(*                 answer                                                  *)
(*   connection    DatabaseManager.connection: whether it is set, and the  *)
(*                 number of DatabaseConnection objects made so far (the   *)
(*                 identity of the one that is set)                        *)
(*   inflight      the requests that have run a first part of their        *)
(*                 handler and not yet the rest, with what they read       *)
(***************************************************************************)
VARIABLES call, out, db, tx, failed, issued_pis, issued_items, clock, ret,
          connection, inflight

vars == << call, out, db, tx, failed, issued_pis, issued_items, clock, ret,
           connection, inflight >>

store_vars == << db, tx, failed, issued_pis, issued_items, clock, ret,
                 connection, inflight >>

\* The tables right after DatabaseManager._create_tables_if_needed.
EmptyTables == [ program_increments |-> {}, wsjf_items |-> {} ]

StoreInit ==
    /\ db = EmptyTables
    /\ tx = EmptyTables
    /\ failed = FALSE
    /\ issued_pis = 0
    /\ issued_items = 0
    /\ clock = 0
    /\ ret = [ op |-> "none" ]
    /\ connection = [ open |-> TRUE, id |-> 1 ]
    /\ inflight = {}

(***************************************************************************)
(* Inputs of the model layer.                                              *)
(***************************************************************************)
RawInts == (0 - 1)..MaxRaw

\* Keyword arguments of WSJFSubValues(...): at most MaxPresent fields given.
Kwargs(values) ==
    UNION { [ S -> values ] :
            S \in { T \in SUBSET SubValueKeys : Cardinality(T) <= MaxPresent } }

Kw1(k, v) == [ x \in {k} |-> v ]

\* Values for the fields of an aggregate that is validated: two that are
\* allowed and one that is not.
ProbeValues == {1, 4, 21}

\* Aggregates for calculate_max_value: one field with each of the allowed
\* values, and up to MaxPresent fields with the values below.
MaxValueProbe == {1, 3, 8, 21}

Aggregates ==
    { SubValues(m) : m \in Kwargs(MaxValueProbe) }
    \cup { SubValues(Kw1(k, v)) : k \in SubValueKeys, v \in FIBONACCI_VALUES }

\* tests/test_wsjf_service.py, test_wsjf_score_calculation: 34 / 5 = 6.8
P1 == Payload("Score Test Item", "Test WSJF score calculation",
              [ x \in {"pms_business", "dev_technical", "ia_business"} |->
                  IF x = "pms_business" THEN 21
                  ELSE IF x = "dev_technical" THEN 13 ELSE 8 ],
              [ x \in {"consultants_business", "support_business"} |->
                  IF x = "consultants_business" THEN 5 ELSE 3 ],
              [ x \in {"dev_business", "devops_technical"} |->
                  IF x = "dev_business" THEN 8 ELSE 3 ],
              5, "New", Some("Alice Johnson"), Some("Team A"), 1)

\* tests/test_wsjf_models.py, test_wsjf_score_calculation: 16 / 5 = 3.2
P2 == Payload("Test Feature", "",
              Kw1("dev_business", 8),
              [ x \in {"pms_business", "consultants_business"} |->
                  IF x = "pms_business" THEN 5 ELSE 3 ],
              Kw1("support_business", 3),
              5, "New", None, None, 1)

\* The same score as P2 from other sub-values: 32 / 10 is not a Fibonacci
\* job size, so 8 / 2.5 is out; (5 + 8 + 3) / 5 = 3.2
P3 == Payload("Tie", "same score as Test Feature",
              Kw1("pms_business", 5), Kw1("pms_business", 8),
              Kw1("ia_technical", 3),
              5, "Go", Some("Bob Smith"), Some("Team B"), 1)

\* 3 / 8 = 0.375, a tie of the rounding
P4 == Payload("Eighths", "", Kw1("pos_business", 1), Kw1("pos_business", 1),
              Kw1("pos_business", 1), 8, "No Go", None, Some("Team A"), 1)

\* tests/test_wsjf_models.py, test_wsjf_item_score_validation: job size 4
P5 == Payload("Test", "", Kw1("dev_business", 8), Kw1("pms_business", 5),
              Kw1("support_business", 3), 4, "New", None, None, 1)

\* no sub-value of risk_reduction is set
P6 == Payload("No risk", "", Kw1("dev_business", 8), Kw1("pms_business", 5),
              << >>, 5, "New", None, None, 1)

\* a sub-value that is not a Fibonacci value
P7 == Payload("Ten", "", Kw1("dev_business", 10), Kw1("pms_business", 5),
              Kw1("support_business", 3), 5, "New", None, None, 1)

\* an empty subject
P8 == Payload("", "", Kw1("dev_business", 8), Kw1("pms_business", 5),
              Kw1("support_business", 3), 5, "New", None, None, 1)

ValidPayloads == { P1, P2, P3, P4 }

InvalidPayloads == { P5, P6, P7, P8 }

\* Items for the score: every combination of one value per factor and a
\* job size, and the payloads above.
ScoreItems ==
    { WSJFItem(Payload("s", "", Kw1("pms_business", b), Kw1("dev_business", t),
                       Kw1("support_business", r), js, "New", None, None, 1),
               1, 0) : b \in FIBONACCI_VALUES, t \in FIBONACCI_VALUES,
                       r \in FIBONACCI_VALUES, js \in FIBONACCI_VALUES }
    \cup { WSJFItem(p, 1, 0) : p \in ValidPayloads }

\* Item lists for the ranking engine: up to MaxRank items, the i-th with
\* id i.
RankLists ==
    UNION { { [ i \in 1..n |-> WSJFItem(f[i], i, 0) ] :
              f \in [ 1..n -> ValidPayloads ] } : n \in 0..MaxRank }

\* Batches: n items, all valid except possibly the one at position bad.
Batches ==
    UNION { { [ i \in 1..n |-> IF i = bad THEN P5 ELSE P2 ] : bad \in {0, 1, n} } :
            n \in 0..MaxBatchLen }

PureCalls ==
    { [ op |-> "validate_fibonacci_values", arg |-> None ] }
    \cup { [ op |-> "validate_fibonacci_values", arg |-> Some(v) ] : v \in RawInts }
    \cup { [ op |-> "validate_job_size_fibonacci", arg |-> v ] : v \in RawInts }
    \cup { [ op |-> "WSJFSubValues", arg |-> m ] : m \in Kwargs(ProbeValues) }
    \cup { [ op |-> "calculate_max_value", arg |-> sv ] : sv \in Aggregates }
    \cup { [ op |-> "WSJFItemCreate", arg |-> p ] :
           p \in ValidPayloads \cup InvalidPayloads }
    \cup { [ op |-> "wsjf_score", arg |-> it ] : it \in ScoreItems }
    \cup { [ op |-> "WSJFItemBatch", arg |-> b ] : b \in Batches }
    \cup { [ op |-> "_add_priorities", arg |-> l ] : l \in RankLists }

NoCall == [ op |-> "none" ]
NoResult == [ done |-> FALSE ]

PureInit ==
    /\ call \in PureCalls
    /\ out = NoResult
    /\ StoreInit

Pending(op) == call.op = op /\ out.done = FALSE

Return(r) == out' = [ done |-> TRUE, r |-> r ] /\ UNCHANGED << call, store_vars >>

Call_validate_fibonacci_values ==
    Pending("validate_fibonacci_values")
    /\ Return(validate_fibonacci_values(call.arg))

Call_validate_job_size_fibonacci ==
    Pending("validate_job_size_fibonacci")
    /\ Return(validate_job_size_fibonacci(call.arg))

Call_WSJFSubValues ==
    Pending("WSJFSubValues")
    /\ Return([ ok |-> SubValuesValid(SubValues(call.arg)) ])

Call_calculate_max_value ==
    Pending("calculate_max_value")
    /\ Return(calculate_max_value(call.arg))

Call_WSJFItemCreate ==
    Pending("WSJFItemCreate")
    /\ Return([ ok |-> WSJFItemCreateValid(call.arg) ])

Call_wsjf_score ==
    Pending("wsjf_score")
    /\ Return(wsjf_score(call.arg))

Call_WSJFItemBatch ==
    Pending("WSJFItemBatch")
    /\ Return(WSJFItemBatch(call.arg))

Call_add_priorities ==
    Pending("_add_priorities")
    /\ Return(add_priorities(call.arg))

PureNext ==
    \/ Call_validate_fibonacci_values
    \/ Call_validate_job_size_fibonacci
    \/ Call_WSJFSubValues
    \/ Call_calculate_max_value
    \/ Call_WSJFItemCreate
    \/ Call_wsjf_score
    \/ Call_WSJFItemBatch
    \/ Call_add_priorities

\* The model layer and the ranking engine, one call per behaviour.
SpecPure == PureInit /\ [][PureNext]_vars

Returned(op) == call.op = op /\ out.done

(***************************************************************************)
(* Properties of the model layer and the ranking engine (SpecPure).        *)
(***************************************************************************)
SevenValues == {1, 2, 3, 5, 8, 13, 21}

\* The present (non-null) values of an aggregate, as a set.
Present(sv) == { sv[k][1] : k \in { x \in SubValueKeys : sv[x] # None } }

\* The greatest element of a non-empty set of integers, 0 for the empty set.
Greatest(S) == IF S = {} THEN 0 ELSE CHOOSE m \in S : \A v \in S : v <= m

\* C1: for every aggregate whose present values are all among
\* 1,2,3,5,8,13,21, calculate_max_value() returns the maximum of the
\* present values, and 0 when no value is present.
C1_MaxValue ==
    ( Returned("calculate_max_value") /\ Present(call.arg) \subseteq SevenValues )
    => LET vals == Present(call.arg)
       IN  IF vals = {} THEN out.r = 0
           ELSE out.r \in vals /\ \A v \in vals : v <= out.r

\* C1 witness: two values are present, the smaller one in the earlier field.
C1_Witness ==
    /\ Returned("calculate_max_value")
    /\ call.arg["dev_business"] = Some(8)
    /\ call.arg["support_business"] = Some(21)
    /\ out.r = 21

\* C2: the score of an item is (max business_value + max time_criticality
\* + max risk_reduction) / job_size rounded to two decimals, i.e. a number
\* of hundredths nearest to the quotient; 21, 5, 8 over job size 5 is 6.8.
C2_Score ==
    Returned("wsjf_score")
    => LET it == call.arg
           b == Greatest(Present(it.business_value))
           t == Greatest(Present(it.time_criticality))
           r == Greatest(Present(it.risk_reduction))
           d == 100 * (b + t + r) - out.r * it.job_size
       IN  /\ 2 * d <= it.job_size
           /\ 2 * (0 - d) <= it.job_size
           /\ (b = 21 /\ t = 5 /\ r = 8 /\ it.job_size = 5) => out.r = 680

\* C2 witness: the item of the tests, 34 / 5.
C2_Witness ==
    /\ Returned("wsjf_score")
    /\ call.arg = WSJFItem(P1, 1, 0)
    /\ out.r = 680

C10_BatchSize ==
    Returned("WSJFItemBatch")
    => IF \A i \in 1..Len(call.arg) : call.arg[i] = P2
       THEN out.r.ok <=> ( Len(call.arg) >= 1 /\ Len(call.arg) <= 100 )
       ELSE ~out.r.ok

\* C10 witness: exactly 100 valid items are accepted.
C10_Witness ==
    /\ Returned("WSJFItemBatch")
    /\ Len(call.arg) = 100
    /\ \A i \in 1..100 : call.arg[i] = P2
    /\ out.r.ok

\* C4: ranking N >= 0 items returns every input item exactly once, with
\* priorities exactly 1..N, priority equal to the output position and
\* scores non-increasing; the empty list gives the empty list.
C4_Ranking ==
    Returned("_add_priorities")
    => LET items == call.arg
           res == out.r
           N == Len(items)
       IN  /\ Len(res) = N
           /\ \A i \in 1..N :
                Cardinality({ j \in 1..N :
                    res[j] = items[i] @@ [ priority |-> j ] }) = 1
           /\ { res[j].priority : j \in 1..N } = 1..N
           /\ \A j \in 1..N : res[j].priority = j
           /\ \A j \in 1..N : \A k \in 1..N :
                j < k => wsjf_score(res[j]) >= wsjf_score(res[k])
           /\ \A j \in 1..N :
                ( \A k \in 1..N : k # j => wsjf_score(res[k]) < wsjf_score(res[j]) )
                => res[j].priority = 1
           /\ N = 0 => res = << >>

\* C4 witness: three items of distinct scores given in ascending order.
C4_Witness ==
    /\ Returned("_add_priorities")
    /\ Len(call.arg) = 3
    /\ wsjf_score(call.arg[1]) < wsjf_score(call.arg[2])
    /\ wsjf_score(call.arg[2]) < wsjf_score(call.arg[3])
    /\ out.r[1].id = 3 /\ out.r[1].priority = 1
    /\ out.r[3].id = 1 /\ out.r[3].priority = 3

(***************************************************************************)
(* core/database_factory.py: the schema, and the SQL statements of the     *)
(* services by their meaning on a pair of tables t.                        *)
(***************************************************************************)
\* CONSTRAINT check_status
PIStatuses == {"Planning", "Active", "Completed", "Cancelled"}

\* The constraints of a table whose name column is not declared UNIQUE.
PIInsertAllowed_name_not_unique(t, row) ==
    /\ \A r \in t.program_increments : r.id # row.id
    /\ row.end_date > row.start_date
    /\ row.status \in PIStatuses

\* The constraints an INSERT INTO program_increments must meet: PRIMARY
\* KEY, name UNIQUE, check_end_date, check_status.
PIInsertAllowed(t, row) ==
    /\ \A r \in t.program_increments : r.id # row.id
    /\ \A r \in t.program_increments : r.name # row.name
    /\ row.end_date > row.start_date
    /\ row.status \in PIStatuses

\* The constraints of a table without the FOREIGN KEY.
ItemInsertAllowed_no_foreign_key(t, row) ==
    \A r \in t.wsjf_items : r.id # row.id

\* The constraints an INSERT INTO wsjf_items must meet: PRIMARY KEY and
\* the FOREIGN KEY to program_increments(id).
ItemInsertAllowed(t, row) ==
    /\ \A r \in t.wsjf_items : r.id # row.id
    /\ \E q \in t.program_increments : q.id = row.program_increment_id

\* DELETE FROM program_increments WHERE id = ? on a schema whose foreign
\* key does not cascade to the rows of wsjf_items.
DeleteProgramIncrementOnly(t, pi_id) ==
    [ t EXCEPT !.program_increments = { r \in @ : r.id # pi_id } ]

\* DELETE FROM program_increments WHERE id = ?, with ON DELETE CASCADE of
\* wsjf_items.program_increment_id.
DeleteProgramIncrement(t, pi_id) ==
    [ program_increments |-> { r \in t.program_increments : r.id # pi_id },
      wsjf_items |-> { r \in t.wsjf_items : r.program_increment_id # pi_id } ]

\* SELECT * FROM wsjf_items without the WHERE clause.
SelectItemsUnfiltered(t, program_increment_id) == t.wsjf_items

\* SELECT * FROM wsjf_items [WHERE program_increment_id = %(id)s]
SelectItems(t, program_increment_id) ==
    IF program_increment_id # None
    THEN { r \in t.wsjf_items : r.program_increment_id = program_increment_id[1] }
    ELSE t.wsjf_items

\* ORDER BY created_date DESC: every arrangement of the rows in which
\* created_date does not increase; rows of equal created_date come in an
\* order the database chooses.
OrderByCreatedDateDesc(rows) ==
    { s \in [ 1..Cardinality(rows) -> rows ] :
        /\ \A i \in DOMAIN s : \A j \in DOMAIN s : i # j => s[i] # s[j]
        /\ \A i \in DOMAIN s : \A j \in DOMAIN s :
              i < j => s[i].created_date >= s[j].created_date }

(***************************************************************************)
(* services/wsjf_service.py                                                *)
(***************************************************************************)
JsonNull == << "null" >>
JsonNumber(n) == << "number", n >>

\* WSJFSubValues.model_dump_json(): a JSON object with the twelve fields
\* in declaration order, null for None.
model_dump_json(sv) ==
    [ i \in 1..Len(SubValueFields) |->
        << SubValueFields[i],
           IF sv[SubValueFields[i]] = None THEN JsonNull
           ELSE JsonNumber(sv[SubValueFields[i]][1]) >> ]

\* model_validate that reads a null as the number 0.
model_validate_null_as_zero(json) ==
    [ k \in SubValueKeys |->
        LET hits == { i \in DOMAIN json : json[i][1] = k }
        IN  IF hits = {} THEN None
            ELSE LET v == json[CHOOSE i \in hits : TRUE][2]
                 IN  IF v = JsonNull THEN Some(0) ELSE Some(v[2]) ]

\* json.loads and WSJFSubValues.model_validate: a field that is missing
\* from the object or null is None.
model_validate(json) ==
    [ k \in SubValueKeys |->
        LET hits == { i \in DOMAIN json : json[i][1] = k }
        IN  IF hits = {} THEN None
            ELSE LET v == json[CHOOSE i \in hits : TRUE][2]
                 IN  IF v = JsonNull THEN None ELSE Some(v[2]) ]

\* The parameters of INSERT INTO wsjf_items in create_item / create_batch.
ItemRow(item) ==
    [ id |-> item.id,
      subject |-> item.subject,
      description |-> item.description,
      business_value |-> model_dump_json(item.business_value),
      time_criticality |-> model_dump_json(item.time_criticality),
      risk_reduction |-> model_dump_json(item.risk_reduction),
      job_size |-> JsonNumber(item.job_size),
      status |-> item.status,
      owner |-> item.owner,
      team |-> item.team,
      program_increment_id |-> item.program_increment_id,
      created_date |-> item.created_date ]

\* _row_to_wsjf_item that does not pass created_date on, so that the
\* default_factory of WSJFItem stamps the item when it is read.
row_to_wsjf_item_restamped(row) ==
    [ id |-> row.id,
      subject |-> row.subject,
      description |-> row.description,
      business_value |-> model_validate(row.business_value),
      time_criticality |-> model_validate(row.time_criticality),
      risk_reduction |-> model_validate(row.risk_reduction),
      job_size |-> row.job_size[2],
      status |-> row.status,
      owner |-> row.owner,
      team |-> row.team,
      program_increment_id |-> row.program_increment_id,
      created_date |-> clock + 1 ]

\* WSJFService._row_to_wsjf_item
row_to_wsjf_item(row) ==
    [ id |-> row.id,
      subject |-> row.subject,
      description |-> row.description,
      business_value |-> model_validate(row.business_value),
      time_criticality |-> model_validate(row.time_criticality),
      risk_reduction |-> model_validate(row.risk_reduction),
      job_size |-> row.job_size[2],
      status |-> row.status,
      owner |-> row.owner,
      team |-> row.team,
      program_increment_id |-> row.program_increment_id,
      created_date |-> row.created_date ]

\* update_data.model_dump(exclude_unset=True) with the fields that are
\* None left out as well.
model_dump_exclude_none(patch) ==
    [ f \in { g \in DOMAIN patch : patch[g] # None } |->
        IF f \in FactorFields
        THEN Some([ k \in { x \in patch[f][1].fields_set :
                                patch[f][1].object[x] # None } |->
                      patch[f][1].object[k] ])
        ELSE patch[f] ]

\* update_data.model_dump(exclude_unset=True): the fields the request has
\* set, an explicit null included; an aggregate becomes the dict of the
\* fields that were set in it.
model_dump_exclude_unset(patch) ==
    [ f \in DOMAIN patch |->
        IF f \in FactorFields /\ patch[f] # None
        THEN Some([ k \in patch[f][1].fields_set |-> patch[f][1].object[k] ])
        ELSE patch[f] ]

\* The JSON document of a dict of sub-values handed to the database as a
\* JSONB parameter: the keys of the dict in the order of the fields.
RECURSIVE json_dumps(_, _)
json_dumps(dict, i) ==
    IF i > Len(SubValueFields) THEN << >>
    ELSE LET k == SubValueFields[i]
         IN  IF k \in DOMAIN dict
             THEN << << k, IF dict[k] = None THEN JsonNull
                           ELSE JsonNumber(dict[k][1]) >> >>
                  \o json_dumps(dict, i + 1)
             ELSE json_dumps(dict, i + 1)

\* values.append(...) in update_item: the parameter bound to column f,
\* None for NULL.  status is sent as the value of the enumeration.
UpdateParam(f, value) ==
    IF value = None THEN None
    ELSE IF f \in FactorFields THEN Some(json_dumps(value[1], 1))
    ELSE IF f = "job_size" THEN Some(JsonNumber(value[1]))
    ELSE value

\* The columns of wsjf_items declared without NOT NULL.  The model keeps
\* owner and team as optional values; no request of the model sets
\* description to null.
NullableColumns == {"owner", "team"}

\* "f = %(f)s" that merges the new document into the stored one.
SetClauseMerging(row, f, param) ==
    IF f \in FactorFields
    THEN LET kept == { i \in DOMAIN row[f] :
                        \A j \in DOMAIN param[1] : param[1][j][1] # row[f][i][1] }
             merged == [ k \in { row[f][i][1] : i \in kept }
                                \cup { param[1][j][1] : j \in DOMAIN param[1] } |->
                           IF \E j \in DOMAIN param[1] : param[1][j][1] = k
                           THEN LET v == param[1][CHOOSE j \in DOMAIN param[1] :
                                                      param[1][j][1] = k][2]
                                IN  IF v = JsonNull THEN None ELSE Some(v[2])
                           ELSE LET v == row[f][CHOOSE i \in kept :
                                                   row[f][i][1] = k][2]
                                IN  IF v = JsonNull THEN None ELSE Some(v[2]) ]
         IN  [ row EXCEPT ![f] = json_dumps(merged, 1) ]
    ELSE [ row EXCEPT ![f] = IF f \in NullableColumns THEN param ELSE param[1] ]

\* "f = %(f)s" of the SET list: the column takes the parameter.
SetClause(row, f, param) ==
    [ row EXCEPT ![f] = IF f \in NullableColumns THEN param ELSE param[1] ]

\* The whole SET list applied to one row.
RECURSIVE SetClauses(_, _, _)
SetClauses(row, params, fields) ==
    IF fields = {} THEN row
    ELSE LET f == CHOOSE x \in fields : TRUE
         IN  SetClauses(SetClause(row, f, params[f]), params, fields \ {f})

\* The constraints of wsjf_items on an UPDATE of the row item_id: NOT NULL
\* and the foreign key.  An UPDATE that matches no row violates nothing.
ItemUpdateAllowed(t, item_id, params) ==
    ( \E r \in t.wsjf_items : r.id = item_id )
    => /\ \A f \in DOMAIN params \ NullableColumns : params[f] # None
       /\ "program_increment_id" \in DOMAIN params
             => \E pi \in t.program_increments :
                   pi.id = params.program_increment_id[1]

\* UPDATE wsjf_items SET ... without the WHERE clause.
UpdateWsjfItemsEveryRow(t, item_id, params) ==
    [ t EXCEPT !.wsjf_items =
        { SetClauses(r, params, DOMAIN params) : r \in @ } ]

\* UPDATE wsjf_items SET ... WHERE id = %(id)s
UpdateWsjfItems(t, item_id, params) ==
    [ t EXCEPT !.wsjf_items =
        { IF r.id = item_id THEN SetClauses(r, params, DOMAIN params) ELSE r :
          r \in @ } ]

\* The loop of create_batch that leaves the first item out.
RECURSIVE InsertRowsAfterFirst(_, _, _)
InsertRowsAfterFirst(t, rows, n) ==
    IF n <= 1 THEN t
    ELSE [ InsertRowsAfterFirst(t, rows, n - 1) EXCEPT
             !.wsjf_items = @ \cup { rows[n] } ]

\* The loop of create_batch: the tables after the first n INSERTs.
RECURSIVE InsertRows(_, _, _)
InsertRows(t, rows, n) ==
    IF n = 0 THEN t
    ELSE [ InsertRows(t, rows, n - 1) EXCEPT !.wsjf_items = @ \cup { rows[n] } ]

\* The first INSERT of the loop that the database rejects, 0 when every
\* one is accepted.
FirstRejected(t, rows) ==
    LET rejected == { i \in 1..Len(rows) :
                        ~ItemInsertAllowed(InsertRows(t, rows, i - 1), rows[i]) }
    IN  IF rejected = {} THEN 0
        ELSE CHOOSE i \in rejected : \A j \in rejected : i <= j

\* create_batch with conn.commit() inside the loop, after every INSERT.
CommitPerItem(committed, t, rows, inserted) == InsertRows(t, rows, inserted)

\* The committed tables after create_batch: conn.commit() is the statement
\* after the loop, reached when all Len(rows) INSERTs were accepted.
CommitAfterLoop(committed, t, rows, inserted) ==
    IF inserted = Len(rows) THEN InsertRows(t, rows, inserted) ELSE committed

(***************************************************************************)
(* services/pi_service.py                                                  *)
(***************************************************************************)
\* ProgramIncrementCreate: name of 1..100 characters (abstracted to "not
\* empty"), validate_end_date, validate_status.
ProgramIncrementCreateValid(p) ==
    /\ p.name # ""
    /\ ~(p.end_date <= p.start_date)
    /\ p.status \in {"Planning", "Active", "Completed", "Cancelled"}

\* The row INSERTed by ProgramIncrementService.create_pi (created_date is
\* not modelled: no operation of the model reads it).
PIRow(p, id) ==
    [ id |-> id, name |-> p.name, description |-> p.description,
      start_date |-> p.start_date, end_date |-> p.end_date,
      status |-> p.status ]

\* ProgramIncrementUpdate: every field optional; a name that is given is
\* not empty, validate_status passes None and the four statuses.  No
\* validator compares start_date with end_date.
ProgramIncrementUpdateValid(patch) ==
    /\ ("name" \in DOMAIN patch /\ patch.name # None) => patch.name[1] # ""
    /\ ("status" \in DOMAIN patch /\ patch.status # None)
          => patch.status[1] \in {"Planning", "Active", "Completed", "Cancelled"}

\* The SQL NULL a None parameter is sent as.
SqlNull == << "NULL" >>

\* The columns of program_increments declared NOT NULL that update_pi can
\* name.
PINotNullColumns == { "name", "start_date", "end_date", "status" }

\* SET field = ? for every entry of update_dict: the row after the
\* assignment.
PISetClauses(row, update_dict) ==
    [ f \in DOMAIN row |->
        IF f \in DOMAIN update_dict
        THEN IF update_dict[f] = None THEN SqlNull ELSE update_dict[f][1]
        ELSE row[f] ]

\* The constraints with check_end_date left out.
PIUpdateAllowed_dates_unchecked(t, pi_id, update_dict) ==
    \A r \in t.program_increments :
        r.id = pi_id =>
            /\ \A f \in DOMAIN update_dict \cap PINotNullColumns :
                   update_dict[f] # None
            /\ LET new == PISetClauses(r, update_dict)
               IN  /\ \A q \in t.program_increments :
                          q.id # pi_id => q.name # new.name
                   /\ new.status \in PIStatuses

\* The constraints an UPDATE program_increments ... WHERE id = ? must
\* meet on the row it changes: NOT NULL, name UNIQUE, check_end_date,
\* check_status.
PIUpdateAllowed(t, pi_id, update_dict) ==
    \A r \in t.program_increments :
        r.id = pi_id =>
            /\ \A f \in DOMAIN update_dict \cap PINotNullColumns :
                   update_dict[f] # None
            /\ LET new == PISetClauses(r, update_dict)
               IN  /\ \A q \in t.program_increments :
                          q.id # pi_id => q.name # new.name
                   /\ new.end_date > new.start_date
                   /\ new.status \in PIStatuses

\* UPDATE program_increments SET ... WHERE id = ?
UpdateProgramIncrements(t, pi_id, update_dict) ==
    [ t EXCEPT !.program_increments =
        { IF r.id = pi_id THEN PISetClauses(r, update_dict) ELSE r : r \in @ } ]

\* ProgramIncrementService.get_pi: SELECT ... WHERE id = ?, fetchone()
get_pi(t, pi_id) ==
    LET result == { r \in t.program_increments : r.id = pi_id }
    IN  IF result = {} THEN None ELSE Some(CHOOSE r \in result : TRUE)

\* ProgramIncrementService.get_pi_by_name: SELECT ... WHERE name = ?
get_pi_by_name(t, name) ==
    LET result == { r \in t.program_increments : r.name = name }
    IN  IF result = {} THEN None ELSE Some(CHOOSE r \in result : TRUE)

\* The column types of wsjf_items that the statistics query computes with
\* (CREATE TABLE wsjf_items in database_factory.py).
WsjfItemsColumnType ==
    [ business_value |-> "JSONB", time_criticality |-> "JSONB",
      risk_reduction |-> "JSONB", job_size |-> "JSONB" ]

\* The operators + and / of the statistics query exist for numeric
\* operands.  A statement that applies them to another type is rejected
\* when it is analysed, whatever rows the table holds.
AvgOperandDefined ==
    \A c \in DOMAIN WsjfItemsColumnType :
        WsjfItemsColumnType[c] \in {"INTEGER", "NUMERIC"}

RECURSIVE JobSizeProduct(_)
JobSizeProduct(rows) ==
    IF rows = {} THEN 1
    ELSE LET r == CHOOSE x \in rows : TRUE
         IN  r.job_size * JobSizeProduct(rows \ {r})

RECURSIVE RatioSum(_, _)
RatioSum(rows, d) ==
    IF rows = {} THEN 0
    ELSE LET r == CHOOSE x \in rows : TRUE
         IN  ( r.business_value + r.time_criticality + r.risk_reduction )
               * (d \div r.job_size)
             + RatioSum(rows \ {r}, d)

\* AVG((business_value + time_criticality + risk_reduction) * 1.0 /
\* job_size) as an exact fraction << numerator, denominator >>, None for
\* the NULL of an empty group.
AvgRatio(rows) ==
    IF rows = {} THEN None
    ELSE LET d == JobSizeProduct(rows)
         IN  Some(<< RatioSum(rows, d), d * Cardinality(rows) >>)

\* status_distribution = {row[0]: row[1] for row in status_results}
StatusDistribution(rows) ==
    [ st \in { r.status : r \in rows } |->
        Cardinality({ r \in rows : r.status = st }) ]

\* COALESCE(team, 'Unassigned')
TeamLabel(team) == IF team = None THEN "Unassigned" ELSE team[1]

\* team_distribution = {row[0]: row[1] for row in team_results}: one result
\* row per GROUP BY team; when two groups carry the same label the dict
\* keeps the count of the row that comes last, in an order the database
\* chooses.
TeamDistributions(rows) ==
    LET groups == { r.team : r \in rows }
        labels == { TeamLabel(g) : g \in groups }
        counts(l) == { Cardinality({ r \in rows : r.team = g }) :
                       g \in { x \in groups : TeamLabel(x) = l } }
    IN  { d \in [ labels -> 0..Cardinality(rows) ] :
            \A l \in labels : d[l] \in counts(l) }

\* The statistics computed once the Program Increment pi is found and the
\* first query is accepted; round(avg, 2) is taken on the exact average.
PIStats(t, pi) ==
    LET rows == { r \in t.wsjf_items : r.program_increment_id = pi.id }
        avg == AvgRatio(rows)
    IN  { [ pi_id |-> pi.id,
            pi_name |-> pi.name,
            total_items |-> Cardinality(rows),
            avg_wsjf_score |->
                IF avg # None /\ avg[1][1] # 0
                THEN RoundHundredths(avg[1][1], avg[1][2])
                ELSE 0,
            status_distribution |-> StatusDistribution(rows),
            team_distribution |-> td ] : td \in TeamDistributions(rows) }

\* ProgramIncrementService.get_pi_stats: the possible outcomes.  A missing
\* Program Increment gives None before any statistics query is sent.
get_pi_stats(t, pi_id) ==
    LET pi == get_pi(t, pi_id)
    IN  IF pi = None THEN { [ raised |-> FALSE, value |-> None ] }
        ELSE IF ~AvgOperandDefined
             THEN { [ raised |-> TRUE, value |-> "UndefinedFunction" ] }
             ELSE { [ raised |-> FALSE, value |-> Some(x) ] :
                      x \in PIStats(t, pi[1]) }

(***************************************************************************)
(* The requests.  The handlers of api/endpoints.py and api/pi_endpoints.py *)
(* are "async def" without an await, so each runs to its end before the    *)
(* next one starts: one action per request.  Every statement sent on a     *)
(* connection whose transaction is aborted is refused by the database      *)
(* (the services never call rollback()).                                   *)
(***************************************************************************)
PINames == {"PI18", "PI19"}

PIIds == 1..MaxPis

ItemIds == 1..MaxItems

\* tests/test_pi_service.py: "PI18" and "PI19" as they are created there,
\* a payload whose end_date is its start_date, and one with a status that
\* is not allowed.
PIPayload(name, start_date, end_date, status) ==
    [ name |-> name, description |-> "", start_date |-> start_date,
      end_date |-> end_date, status |-> status ]

PIInputs ==
    { PIPayload("PI18", 1, 2, "Planning"), PIPayload("PI19", 1, 2, "Planning"),
      PIPayload("PI18", 1, 1, "Active"), PIPayload("PI19", 1, 2, "Archived") }

\* Items for the requests: two of equal score for the first Program
\* Increment, a higher-scored one for every Program Increment, and one that
\* the model layer rejects.
ItemInputs ==
    { [ p EXCEPT !.program_increment_id = 1 ] : p \in {P2, P3, P5} }
    \cup { [ P1 EXCEPT !.program_increment_id = id ] : id \in PIIds }

\* Request bodies of PUT /api/items/{item_id}: the empty one and the one of
\* tests/test_wsjf_service.py (test_update_item_empty_data,
\* test_update_item); an explicit null for owner, for team and for subject;
\* an aggregate without a value; a job size that is not allowed; a Program
\* Increment that is never created.
TestUpdate ==
    [ subject |-> Some("Updated Subject"),
      description |-> Some("Updated description"),
      business_value |->
          Some(ParsedSubValues([ x \in {"pms_business", "dev_technical"} |->
                                   IF x = "pms_business" THEN 8 ELSE 5 ])),
      status |-> Some("Go") ]

UpdateInputs ==
    { << >>, TestUpdate, Kw1("owner", None), Kw1("team", None),
      Kw1("subject", None),
      Kw1("business_value", Some(ParsedSubValues(<< >>))),
      Kw1("job_size", Some(4)),
      Kw1("program_increment_id", Some(MaxPis + 1)) }

\* Request bodies of POST /api/items/batch for the first Program
\* Increment: two items of equal score, one without a team; one item; a
\* batch whose second item names a Program Increment that is never
\* created; an empty batch; a batch with an item the model layer rejects.
BatchInputs ==
    LET at1(p) == [ p EXCEPT !.program_increment_id = 1 ]
    IN  { << at1(P2), at1(P3) >>, << at1(P1) >>,
          << at1(P2), [ P1 EXCEPT !.program_increment_id = MaxPis + 1 ] >>,
          << >>, << at1(P2), at1(P5) >> }

Init ==
    /\ call = NoCall
    /\ out = NoResult
    /\ StoreInit

\* The answer when the statement is refused or violates a constraint.
StoreError(request, error) == request @@ [ status |-> 500, error |-> error ]

Refused(request) ==
    /\ failed
    /\ ret' = StoreError(request, "InFailedSqlTransaction")
    /\ UNCHANGED << db, tx, failed, issued_pis, issued_items, clock >>

\* POST /api/pis/ : pi_endpoints.create_pi and ProgramIncrementService.create_pi
create_pi(p) ==
    LET request == [ op |-> "create_pi", pi |-> p ]
        row == PIRow(p, issued_pis + 1)
    IN  \/ /\ ~ProgramIncrementCreateValid(p)
           /\ ret' = request @@ [ status |-> 422 ]
           /\ UNCHANGED << db, tx, failed, issued_pis, issued_items, clock >>
        \/ /\ ProgramIncrementCreateValid(p)
           /\ Refused(request)
        \/ /\ ProgramIncrementCreateValid(p)
           /\ ~failed
           /\ get_pi_by_name(tx, p.name) # None
           /\ ret' = request @@ [ status |-> 409 ]
           /\ UNCHANGED << db, tx, failed, issued_pis, issued_items, clock >>
        \/ /\ ProgramIncrementCreateValid(p)
           /\ ~failed
           /\ get_pi_by_name(tx, p.name) = None
           /\ issued_pis < MaxPis
           /\ IF PIInsertAllowed(tx, row)
              THEN /\ tx' = [ tx EXCEPT !.program_increments = @ \cup {row} ]
                   /\ issued_pis' = issued_pis + 1
                   /\ ret' = request @@ [ status |-> 201, result |-> row ]
                   /\ UNCHANGED << db, failed, issued_items, clock >>
              ELSE /\ failed' = TRUE
                   /\ ret' = StoreError(request, "IntegrityError")
                   /\ UNCHANGED << db, tx, issued_pis, issued_items, clock >>

\* GET /api/pis/{pi_id} : ProgramIncrementService.get_pi
get_pi_request(pi_id) ==
    LET request == [ op |-> "get_pi", pi_id |-> pi_id ]
    IN  \/ Refused(request)
        \/ /\ ~failed
           /\ ret' = request @@
                [ status |-> IF get_pi(tx, pi_id) = None THEN 404 ELSE 200,
                  result |-> get_pi(tx, pi_id) ]
           /\ UNCHANGED << db, tx, failed, issued_pis, issued_items, clock >>

\* DELETE /api/pis/{pi_id} : ProgramIncrementService.delete_pi
delete_pi(pi_id) ==
    LET request == [ op |-> "delete_pi", pi_id |-> pi_id ]
        rowcount == Cardinality({ r \in tx.program_increments : r.id = pi_id })
    IN  \/ Refused(request)
        \/ /\ ~failed
           /\ tx' = DeleteProgramIncrement(tx, pi_id)
           /\ ret' = request @@
                [ status |-> IF rowcount > 0 THEN 204 ELSE 404,
                  result |-> rowcount > 0 ]
           /\ UNCHANGED << db, failed, issued_pis, issued_items, clock >>

\* PUT /api/pis/{pi_id} : ProgramIncrementUpdate, pi_endpoints.update_pi
\* and ProgramIncrementService.update_pi.  get_pi reads the row; an empty
\* update_dict ends the call; otherwise UPDATE (no commit follows it) and
\* get_pi again for the answer.
update_pi(pi_id, patch) ==
    LET request == [ op |-> "update_pi", pi_id |-> pi_id, update_data |-> patch ]
        existing_pi == get_pi(tx, pi_id)
        update_dict == model_dump_exclude_unset(patch)
        updated == UpdateProgramIncrements(tx, pi_id, update_dict)
    IN  \/ /\ ~ProgramIncrementUpdateValid(patch)
           /\ ret' = request @@ [ status |-> 422 ]
           /\ UNCHANGED << db, tx, failed, issued_pis, issued_items, clock >>
        \/ /\ ProgramIncrementUpdateValid(patch)
           /\ Refused(request)
        \/ /\ ProgramIncrementUpdateValid(patch)
           /\ ~failed
           /\ existing_pi = None
           /\ ret' = request @@ [ status |-> 404, result |-> None ]
           /\ UNCHANGED << db, tx, failed, issued_pis, issued_items, clock >>
        \/ /\ ProgramIncrementUpdateValid(patch)
           /\ ~failed
           /\ existing_pi # None
           /\ IF DOMAIN update_dict = {}
              THEN /\ ret' = request @@ [ status |-> 200, result |-> existing_pi ]
                   /\ UNCHANGED << db, tx, failed, issued_pis, issued_items,
                                   clock >>
              ELSE IF PIUpdateAllowed(tx, pi_id, update_dict)
              THEN /\ tx' = updated
                   /\ ret' = request @@
                        [ status |-> 200, result |-> get_pi(updated, pi_id) ]
                   /\ UNCHANGED << db, failed, issued_pis, issued_items, clock >>
              ELSE /\ failed' = TRUE
                   /\ ret' = StoreError(request, "IntegrityError")
                   /\ UNCHANGED << db, tx, issued_pis, issued_items, clock >>

\* GET /api/pis/{pi_id}/stats : ProgramIncrementService.get_pi_stats
get_pi_stats_request(pi_id) ==
    LET request == [ op |-> "get_pi_stats", pi_id |-> pi_id ]
    IN  \/ Refused(request)
        \/ /\ ~failed
           /\ \E stats \in get_pi_stats(tx, pi_id) :
                IF stats.raised
                THEN /\ failed' = TRUE
                     /\ ret' = StoreError(request, stats.value)
                ELSE /\ failed' = failed
                     /\ ret' = request @@
                          [ status |-> IF stats.value = None THEN 404 ELSE 200,
                            result |-> stats.value ]
           /\ UNCHANGED << db, tx, issued_pis, issued_items, clock >>

\* POST /api/items : WSJFService.create_item
create_item(p) ==
    LET request == [ op |-> "create_item", item_data |-> p ]
    IN  \/ /\ ~WSJFItemCreateValid(p)
           /\ ret' = request @@ [ status |-> 422 ]
           /\ UNCHANGED << db, tx, failed, issued_pis, issued_items, clock >>
        \/ /\ WSJFItemCreateValid(p)
           /\ Refused(request)
        \/ /\ WSJFItemCreateValid(p)
           /\ ~failed
           /\ issued_items < MaxItems
           /\ \E utcnow \in { clock, clock + 1 } :
                LET item == WSJFItem(p, issued_items + 1, utcnow)
                IN  IF ItemInsertAllowed(tx, ItemRow(item))
                    THEN /\ tx' = [ tx EXCEPT !.wsjf_items = @ \cup { ItemRow(item) } ]
                         /\ db' = tx'
                         /\ issued_items' = issued_items + 1
                         /\ clock' = utcnow
                         /\ ret' = request @@ [ status |-> 201, result |-> item ]
                         /\ UNCHANGED << failed, issued_pis >>
                    ELSE /\ failed' = TRUE
                         /\ ret' = StoreError(request, "IntegrityError")
                         /\ UNCHANGED << db, tx, issued_pis, issued_items, clock >>

\* A row that _row_to_wsjf_item turns into a WSJFItem; on any other row
\* the constructor raises a ValidationError.
Readable(row) == WSJFItemValid(row_to_wsjf_item(row))

\* The answer when building the response raises.
ServerError(request, error) == request @@ [ status |-> 500, error |-> error ]

\* GET /api/items/{item_id} : WSJFService.get_item
get_item(item_id) ==
    LET request == [ op |-> "get_item", item_id |-> item_id ]
        result == { r \in tx.wsjf_items : r.id = item_id }
    IN  \/ Refused(request)
        \/ /\ ~failed
           /\ ret' = IF result = {}
                     THEN request @@ [ status |-> 404, result |-> None ]
                     ELSE IF ~Readable(CHOOSE r \in result : TRUE)
                     THEN ServerError(request, "ValidationError")
                     ELSE request @@
                            [ status |-> 200,
                              result |-> Some(row_to_wsjf_item(
                                                CHOOSE r \in result : TRUE)) ]
           /\ UNCHANGED << db, tx, failed, issued_pis, issued_items, clock >>

\* GET /api/items[?program_increment_id=...] : WSJFService.get_all_items
get_all_items(program_increment_id) ==
    LET request == [ op |-> "get_all_items",
                     program_increment_id |-> program_increment_id ]
    IN  \/ Refused(request)
        \/ /\ ~failed
           /\ \E results \in OrderByCreatedDateDesc(
                                SelectItems(tx, program_increment_id)) :
                LET items == [ i \in 1..Len(results) |-> row_to_wsjf_item(results[i]) ]
                IN  ret' = IF \E i \in 1..Len(results) : ~Readable(results[i])
                           THEN ServerError(request, "ValidationError")
                           ELSE request @@
                                  [ status |-> 200,
                                    fetched |-> [ i \in 1..Len(results) |->
                                                    results[i].id ],
                                    result |-> add_priorities(items) ]
           /\ UNCHANGED << db, tx, failed, issued_pis, issued_items, clock >>

\* DELETE /api/items/{item_id} : WSJFService.delete_item
delete_item(item_id) ==
    LET request == [ op |-> "delete_item", item_id |-> item_id ]
    IN  \/ Refused(request)
        \/ /\ ~failed
           /\ tx' = [ tx EXCEPT !.wsjf_items = { r \in @ : r.id # item_id } ]
           /\ db' = tx'
           /\ ret' = request @@ [ status |-> 204, result |-> TRUE ]
           /\ UNCHANGED << failed, issued_pis, issued_items, clock >>

\* PUT /api/items/{item_id} : WSJFService.update_item.  The request body
\* is validated first; get_item reads the row; an empty update_dict ends
\* the call before any statement is sent; otherwise UPDATE, commit, and
\* get_item again for the answer.
update_item(item_id, patch) ==
    LET request == [ op |-> "update_item", item_id |-> item_id,
                     update_data |-> patch ]
        existing == { r \in tx.wsjf_items : r.id = item_id }
        update_dict == model_dump_exclude_unset(patch)
        params == [ f \in DOMAIN update_dict |-> UpdateParam(f, update_dict[f]) ]
        updated == UpdateWsjfItems(tx, item_id, params)
        row == CHOOSE r \in updated.wsjf_items : r.id = item_id
    IN  \/ /\ ~WSJFItemUpdateValid(patch)
           /\ ret' = request @@ [ status |-> 422 ]
           /\ UNCHANGED << db, tx, failed, issued_pis, issued_items, clock >>
        \/ /\ WSJFItemUpdateValid(patch)
           /\ Refused(request)
        \/ /\ WSJFItemUpdateValid(patch)
           /\ ~failed
           /\ existing = {}
           /\ ret' = request @@ [ status |-> 404, result |-> None ]
           /\ UNCHANGED << db, tx, failed, issued_pis, issued_items, clock >>
        \/ /\ WSJFItemUpdateValid(patch)
           /\ ~failed
           /\ existing # {}
           /\ ~Readable(CHOOSE r \in existing : TRUE)
           /\ ret' = ServerError(request, "ValidationError")
           /\ UNCHANGED << db, tx, failed, issued_pis, issued_items, clock >>
        \/ /\ WSJFItemUpdateValid(patch)
           /\ ~failed
           /\ existing # {}
           /\ Readable(CHOOSE r \in existing : TRUE)
           /\ IF DOMAIN update_dict = {}
              THEN /\ ret' = request @@
                        [ status |-> 200,
                          result |-> Some(row_to_wsjf_item(
                                            CHOOSE r \in existing : TRUE)) ]
                   /\ UNCHANGED << db, tx, failed, issued_pis, issued_items,
                                   clock >>
              ELSE IF ItemUpdateAllowed(tx, item_id, params)
              THEN /\ tx' = updated
                   /\ db' = tx'
                   /\ ret' = IF Readable(row)
                             THEN request @@
                                    [ status |-> 200,
                                      result |-> Some(row_to_wsjf_item(row)) ]
                             ELSE ServerError(request, "ValidationError")
                   /\ UNCHANGED << failed, issued_pis, issued_items, clock >>
              ELSE /\ failed' = TRUE
                   /\ ret' = StoreError(request, "IntegrityError")
                   /\ UNCHANGED << db, tx, issued_pis, issued_items, clock >>

\* The values datetime.utcnow() takes for the n items of a batch: the
\* clock does not go back and may stand still.
BatchDates(n) ==
    { s \in [ 1..n -> clock..(clock + n) ] :
        /\ n > 0 => s[1] \in { clock, clock + 1 }
        /\ \A i \in 1..(n - 1) : s[i + 1] \in { s[i], s[i] + 1 } }

\* POST /api/items/batch : WSJFItemBatch and WSJFService.create_batch.
\* When an INSERT is rejected the exception leaves the loop: the rows
\* inserted before it stay in the transaction, which is aborted.
create_batch(items_data) ==
    LET request == [ op |-> "create_batch", items_data |-> items_data ]
        n == Len(items_data)
    IN  \/ /\ ~WSJFItemBatch(items_data).ok
           /\ ret' = request @@ [ status |-> 422 ]
           /\ UNCHANGED << db, tx, failed, issued_pis, issued_items, clock >>
        \/ /\ WSJFItemBatch(items_data).ok
           /\ Refused(request)
        \/ /\ WSJFItemBatch(items_data).ok
           /\ ~failed
           /\ issued_items + n <= MaxStored
           /\ \E dates \in BatchDates(n) :
                LET items == [ i \in 1..n |->
                                 WSJFItem(items_data[i], issued_items + i, dates[i]) ]
                    rows == [ i \in 1..n |-> ItemRow(items[i]) ]
                    k == FirstRejected(tx, rows)
                    inserted == IF k = 0 THEN n ELSE k - 1
                IN  /\ tx' = InsertRows(tx, rows, inserted)
                    /\ db' = CommitAfterLoop(db, tx, rows, inserted)
                    /\ failed' = (k # 0)
                    /\ issued_items' = issued_items + (IF k = 0 THEN n ELSE k)
                    /\ clock' = dates[IF k = 0 THEN n ELSE k]
                    /\ ret' = IF k = 0
                              THEN request @@ [ status |-> 201, result |-> items ]
                              ELSE StoreError(request, "IntegrityError")
                    /\ UNCHANGED issued_pis

\* The three WSJFItemCreate objects of get_sample_data.  job_size is
\* written there as JobSizeSubValues(dev, ia, devops, exploit); the score
\* divides by the value of the job size, which is the greatest of the four
\* (5, 8 and 8).
SampleItems(sample_pi_id) ==
    << Payload("User Authentication System",
               "Implement secure login and registration system",
               [ k \in {"pms_business", "dev_technical", "ia_business"} |->
                   IF k = "pms_business" THEN 21
                   ELSE IF k = "dev_technical" THEN 13 ELSE 8 ],
               [ k \in {"consultants_business", "support_business"} |->
                   IF k = "consultants_business" THEN 13 ELSE 5 ],
               [ k \in {"dev_business", "devops_technical"} |->
                   IF k = "dev_business" THEN 8 ELSE 3 ],
               5, "New", Some("Alice Johnson"), Some("Security Team"),
               sample_pi_id),
       Payload("Mobile App Dashboard",
               "Create responsive dashboard for mobile users",
               [ k \in {"pos_business", "dev_business"} |->
                   IF k = "pos_business" THEN 8 ELSE 5 ],
               [ k \in {"ia_technical", "devops_business"} |->
                   IF k = "ia_technical" THEN 5 ELSE 3 ],
               [ k \in {"consultants_business", "support_business"} |->
                   IF k = "consultants_business" THEN 3 ELSE 2 ],
               8, "New", Some("Bob Smith"), Some("Mobile Team"),
               sample_pi_id),
       Payload("Payment Gateway Integration",
               "Integrate with third-party payment processors",
               [ k \in {"bos_agri_business", "pms_business"} |->
                   IF k = "bos_agri_business" THEN 21 ELSE 13 ],
               [ k \in {"bos_cabinet_business", "consultants_business"} |->
                   IF k = "bos_cabinet_business" THEN 13 ELSE 8 ],
               [ k \in {"dev_technical", "support_business"} |->
                   IF k = "dev_technical" THEN 8 ELSE 5 ],
               8, "New", Some("Carol Davis"), Some("Backend Team"),
               sample_pi_id) >>

\* timedelta(days=90), in the unit of the clock
SamplePIDays == 90

\* The ProgramIncrement get_sample_data builds when "PI18" is not stored.
SamplePIRow(id, start_date, end_date) ==
    [ id |-> id, name |-> "PI18",
      description |-> "Sample Program Increment for demonstration",
      start_date |-> start_date, end_date |-> end_date + SamplePIDays,
      status |-> "Planning" ]

\* DELETE FROM wsjf_items WHERE program_increment_id = %(id)s that deletes
\* nothing.
DeleteItemsOfNone(t, pi_id) == t

\* DELETE FROM wsjf_items WHERE program_increment_id = %(id)s
DeleteItemsOf(t, pi_id) ==
    [ t EXCEPT !.wsjf_items = { r \in @ : r.program_increment_id # pi_id } ]

\* GET /api/sample-data : WSJFService.get_sample_data.  SELECT the id of
\* "PI18"; when there is none INSERT the sample Program Increment and
\* commit; DELETE the items of that Program Increment and commit;
\* create_batch of the three sample items (INSERTs, then commit); the
\* answer is _add_priorities of the created items.  dates are the values
\* of datetime.utcnow(): the first two for start_date and end_date when
\* the Program Increment is built, the last three for the items.
get_sample_data ==
    LET request == [ op |-> "get_sample_data" ]
        pi_result == get_pi_by_name(tx, "PI18")
        n == Len(SampleItems(0))
        m == IF pi_result = None THEN 2 ELSE 0
    IN  \/ Refused(request)
        \/ /\ ~failed
           /\ issued_items + n <= MaxSampleIds
           /\ pi_result = None => issued_pis < MaxPis
           /\ \E dates \in BatchDates(m + n) :
                LET sample_pi == SamplePIRow(issued_pis + 1, dates[1], dates[2])
                    sample_pi_id == IF pi_result # None THEN pi_result[1].id
                                    ELSE sample_pi.id
                    seeded == IF pi_result # None THEN tx
                              ELSE [ tx EXCEPT !.program_increments =
                                                 @ \cup { sample_pi } ]
                    cleared == DeleteItemsOf(seeded, sample_pi_id)
                    items == [ i \in 1..n |->
                                 WSJFItem(SampleItems(sample_pi_id)[i],
                                          issued_items + i, dates[m + i]) ]
                    rows == [ i \in 1..n |-> ItemRow(items[i]) ]
                    k == FirstRejected(cleared, rows)
                    inserted == IF k = 0 THEN n ELSE k - 1
                IN  IF pi_result = None /\ ~PIInsertAllowed(tx, sample_pi)
                    THEN /\ failed' = TRUE
                         /\ ret' = StoreError(request, "IntegrityError")
                         /\ UNCHANGED << db, tx, issued_pis, issued_items, clock >>
                    ELSE /\ tx' = InsertRows(cleared, rows, inserted)
                         /\ db' = CommitAfterLoop(cleared, cleared, rows, inserted)
                         /\ failed' = (k # 0)
                         /\ issued_pis' = IF pi_result = None THEN issued_pis + 1
                                          ELSE issued_pis
                         /\ issued_items' = issued_items + (IF k = 0 THEN n ELSE k)
                         /\ clock' = dates[m + (IF k = 0 THEN n ELSE k)]
                         /\ ret' = IF k = 0
                                   THEN request @@
                                          [ status |-> 200,
                                            result |-> add_priorities(items) ]
                                   ELSE StoreError(request, "IntegrityError")

\* item.team or "Unassigned"
TeamOrUnassigned(team) ==
    IF team = None \/ team = Some("") THEN "Unassigned" ELSE team[1]

RECURSIVE SumOfScores(_, _)
SumOfScores(items, n) ==
    IF n = 0 THEN 0 ELSE wsjf_score(items[n]) + SumOfScores(items, n - 1)

\* The statistics get_stats computes from a list of items that is not
\* empty.  round(avg, 2) is taken on the exact mean.
StatsOfItems(items, program_increment_id) ==
    [ total_items |-> Len(items),
      avg_wsjf_score |->
          RoundHundredths(SumOfScores(items, Len(items)), 100 * Len(items)),
      status_distribution |->
          [ st \in { items[i].status : i \in DOMAIN items } |->
              Cardinality({ i \in DOMAIN items : items[i].status = st }) ],
      team_distribution |->
          [ t \in { TeamOrUnassigned(items[i].team) : i \in DOMAIN items } |->
              Cardinality({ i \in DOMAIN items :
                              TeamOrUnassigned(items[i].team) = t }) ],
      program_increment_id |-> program_increment_id ]

\* GET /api/stats[?program_increment_id=...] : get_stats of endpoints.py,
\* over the list WSJFService.get_all_items returns.
get_stats(program_increment_id) ==
    LET request == [ op |-> "get_stats",
                     program_increment_id |-> program_increment_id ]
    IN  \/ Refused(request)
        \/ /\ ~failed
           /\ \E results \in OrderByCreatedDateDesc(
                                SelectItems(tx, program_increment_id)) :
                LET items == add_priorities(
                       [ i \in 1..Len(results) |-> row_to_wsjf_item(results[i]) ])
                IN  ret' = IF \E i \in 1..Len(results) : ~Readable(results[i])
                           THEN ServerError(request, "ValidationError")
                           ELSE IF Len(items) = 0
                           THEN request @@
                                  [ status |-> 200,
                                    result |->
                                      [ total_items |-> 0, avg_wsjf_score |-> 0,
                                        status_distribution |-> << >>,
                                        team_distribution |-> << >> ] ]
                           ELSE request @@
                                  [ status |-> 200,
                                    result |-> StatsOfItems(items,
                                                            program_increment_id) ]
           /\ UNCHANGED << db, tx, failed, issued_pis, issued_items, clock >>

\* DatabaseManager._create_tables_if_needed, called for every new
\* connection: DROP TABLE IF EXISTS for both tables, CREATE TABLE for
\* both, commit.
create_tables_if_needed(committed) == EmptyTables

\* DatabaseManager.connect: the connection that is set is returned; when
\* none is set a DatabaseConnection is made and the tables are created.
connect ==
    LET request == [ op |-> "connect" ]
    IN  \/ /\ connection.open
           /\ ret' = request @@ [ status |-> 200, result |-> connection.id ]
           /\ UNCHANGED << db, tx, failed, issued_pis, issued_items, clock,
                           connection >>
        \/ /\ ~connection.open
           /\ connection.id < MaxConnections
           /\ connection' = [ open |-> TRUE, id |-> connection.id + 1 ]
           /\ db' = create_tables_if_needed(db)
           /\ tx' = db'
           /\ failed' = FALSE
           /\ ret' = request @@ [ status |-> 200, result |-> connection.id + 1 ]
           /\ UNCHANGED << issued_pis, issued_items, clock >>

\* DatabaseManager.close: the connection is closed, which discards what
\* its transaction has not committed, and the manager forgets it.
close ==
    LET request == [ op |-> "close" ]
    IN  /\ ret' = request @@ [ status |-> 200 ]
        /\ IF connection.open
           THEN /\ connection' = [ connection EXCEPT !.open = FALSE ]
                /\ tx' = db
                /\ failed' = FALSE
                /\ UNCHANGED << db, issued_pis, issued_items, clock >>
           ELSE UNCHANGED << db, tx, failed, issued_pis, issued_items, clock,
                             connection >>

\* The requests that can be under way at the same time.
Clients == 1..MaxClients

\* pi_endpoints.create_pi up to the call of the service: the body is
\* validated and get_pi_by_name finds no Program Increment of that name.
create_pi_check(c, p) ==
    LET request == [ op |-> "create_pi", pi |-> p, client |-> c ]
    IN  /\ \A r \in inflight : r.client # c
        /\ ProgramIncrementCreateValid(p)
        /\ ~failed
        /\ get_pi_by_name(tx, p.name) = None
        /\ inflight' = inflight \cup { request }
        /\ UNCHANGED << db, tx, failed, issued_pis, issued_items, clock, ret >>

\* ProgramIncrementService.create_pi, called by a handler whose name
\* check has passed: the INSERT.
create_pi_insert(c) ==
    \E request \in { r \in inflight : r.client = c /\ r.op = "create_pi" } :
        LET row == PIRow(request.pi, issued_pis + 1)
        IN  /\ inflight' = inflight \ { request }
            /\ \/ Refused(request)
               \/ /\ ~failed
                  /\ issued_pis < MaxPis
                  /\ IF PIInsertAllowed(tx, row)
                     THEN /\ tx' = [ tx EXCEPT !.program_increments = @ \cup {row} ]
                          /\ issued_pis' = issued_pis + 1
                          /\ ret' = request @@ [ status |-> 201, result |-> row ]
                          /\ UNCHANGED << db, failed, issued_items, clock >>
                     ELSE /\ failed' = TRUE
                          /\ ret' = StoreError(request, "IntegrityError")
                          /\ UNCHANGED << db, tx, issued_pis, issued_items, clock >>

\* WSJFService.update_item up to its UPDATE: the body is validated,
\* get_item finds the item, and update_dict is not empty.  existing_item
\* is the row that was read.
update_item_read(c, item_id, patch) ==
    LET existing == { r \in tx.wsjf_items : r.id = item_id }
    IN  /\ \A r \in inflight : r.client # c
        /\ WSJFItemUpdateValid(patch)
        /\ ~failed
        /\ existing # {}
        /\ Readable(CHOOSE r \in existing : TRUE)
        /\ DOMAIN model_dump_exclude_unset(patch) # {}
        /\ inflight' = inflight \cup
              { [ op |-> "update_item", item_id |-> item_id,
                  update_data |-> patch, client |-> c,
                  existing_item |-> CHOOSE r \in existing : TRUE ] }
        /\ UNCHANGED << db, tx, failed, issued_pis, issued_items, clock, ret >>

\* The rest of update_item as a write of the whole row: the row that was
\* read, with the SET list applied, replaces the stored one.
update_item_write_back(c) ==
    \E request \in { r \in inflight : r.client = c /\ r.op = "update_item" } :
        LET item_id == request.item_id
            update_dict == model_dump_exclude_unset(request.update_data)
            params == [ f \in DOMAIN update_dict |->
                          UpdateParam(f, update_dict[f]) ]
            updated == [ tx EXCEPT !.wsjf_items =
                           { IF r.id = item_id
                             THEN SetClauses(request.existing_item, params,
                                             DOMAIN params)
                             ELSE r : r \in @ } ]
            result == { r \in updated.wsjf_items : r.id = item_id }
        IN  /\ inflight' = inflight \ { request }
            /\ \/ Refused(request)
               \/ /\ ~failed
                  /\ IF ItemUpdateAllowed(tx, item_id, params)
                     THEN /\ tx' = updated
                          /\ db' = tx'
                          /\ ret' = IF result = {}
                                    THEN request @@ [ status |-> 404,
                                                      result |-> None ]
                                    ELSE IF Readable(CHOOSE r \in result : TRUE)
                                    THEN request @@
                                           [ status |-> 200,
                                             result |-> Some(row_to_wsjf_item(
                                                 CHOOSE r \in result : TRUE)) ]
                                    ELSE ServerError(request, "ValidationError")
                          /\ UNCHANGED << failed, issued_pis, issued_items, clock >>
                     ELSE /\ failed' = TRUE
                          /\ ret' = StoreError(request, "IntegrityError")
                          /\ UNCHANGED << db, tx, issued_pis, issued_items, clock >>

\* The rest of update_item, for a request that has read its item: the
\* UPDATE of the columns of the SET list, the commit, and get_item for the
\* answer.
update_item_write(c) ==
    \E request \in { r \in inflight : r.client = c /\ r.op = "update_item" } :
        LET item_id == request.item_id
            update_dict == model_dump_exclude_unset(request.update_data)
            params == [ f \in DOMAIN update_dict |->
                          UpdateParam(f, update_dict[f]) ]
            updated == UpdateWsjfItems(tx, item_id, params)
            result == { r \in updated.wsjf_items : r.id = item_id }
        IN  /\ inflight' = inflight \ { request }
            /\ \/ Refused(request)
               \/ /\ ~failed
                  /\ IF ItemUpdateAllowed(tx, item_id, params)
                     THEN /\ tx' = updated
                          /\ db' = tx'
                          /\ ret' = IF result = {}
                                    THEN request @@ [ status |-> 404,
                                                      result |-> None ]
                                    ELSE IF Readable(CHOOSE r \in result : TRUE)
                                    THEN request @@
                                           [ status |-> 200,
                                             result |-> Some(row_to_wsjf_item(
                                                 CHOOSE r \in result : TRUE)) ]
                                    ELSE ServerError(request, "ValidationError")
                          /\ UNCHANGED << failed, issued_pis, issued_items, clock >>
                     ELSE /\ failed' = TRUE
                          /\ ret' = StoreError(request, "IntegrityError")
                          /\ UNCHANGED << db, tx, issued_pis, issued_items, clock >>

\* Request bodies for updates of one item by two clients: a new owner; a
\* new owner and a new team; a Program Increment that is never created.
ConcurrentUpdateInputs ==
    { Kw1("owner", Some("Alice")),
      [ owner |-> Some("Bob"), team |-> Some("Team B") ],
      Kw1("program_increment_id", Some(MaxPis + 1)) }

\* Request bodies of PUT /api/pis/{pi_id}: the empty one; a new name (the
\* two names of the creations); only start_date; only end_date, not after
\* and after the start; a status that is not allowed; an explicit null
\* for the name.
PIUpdateInputs ==
    { << >>, Kw1("name", Some("PI18")), Kw1("name", Some("PI19")),
      Kw1("start_date", Some(3)), Kw1("end_date", Some(1)),
      Kw1("end_date", Some(4)), Kw1("status", Some("Archived")),
      Kw1("name", None) }

Next ==
    \/ \E p \in PIInputs : create_pi(p)
          /\ UNCHANGED << call, out, connection, inflight >>
    \/ \E id \in PIIds : get_pi_request(id)
          /\ UNCHANGED << call, out, connection, inflight >>
    \/ \E id \in PIIds : delete_pi(id)
          /\ UNCHANGED << call, out, connection, inflight >>
    \/ \E id \in PIIds : get_pi_stats_request(id)
          /\ UNCHANGED << call, out, connection, inflight >>
    \/ \E p \in ItemInputs : create_item(p)
          /\ UNCHANGED << call, out, connection, inflight >>
    \/ \E id \in ItemIds : get_item(id)
          /\ UNCHANGED << call, out, connection, inflight >>
    \/ \E f \in { None } \cup { Some(id) : id \in PIIds } :
          get_all_items(f) /\ UNCHANGED << call, out, connection, inflight >>
    \/ \E id \in ItemIds : delete_item(id)
          /\ UNCHANGED << call, out, connection, inflight >>

\* The services behind the API, on the shared connection.
Spec == Init /\ [][Next]_vars

\* Items and their updates: one Program Increment, the items of it, the
\* update requests for the first item (the others stay as they were
\* created) and the reads.
NextUpdate ==
    \/ create_pi(PIPayload("PI18", 1, 2, "Planning"))
          /\ UNCHANGED << call, out, connection, inflight >>
    \/ create_item([ P1 EXCEPT !.program_increment_id = 1 ])
          /\ UNCHANGED << call, out, connection, inflight >>
    \/ \E patch \in UpdateInputs :
          update_item(1, patch)
          /\ UNCHANGED << call, out, connection, inflight >>
    \/ \E id \in ItemIds : get_item(id)
          /\ UNCHANGED << call, out, connection, inflight >>

SpecUpdate == Init /\ [][NextUpdate]_vars

\* Batches: one Program Increment, batches of items for it, single items,
\* the list of all items and the statistics over it.
NextBatch ==
    \/ create_pi(PIPayload("PI18", 1, 2, "Planning"))
          /\ UNCHANGED << call, out, connection, inflight >>
    \/ \E items_data \in BatchInputs :
          create_batch(items_data)
          /\ UNCHANGED << call, out, connection, inflight >>
    \/ create_item([ P4 EXCEPT !.program_increment_id = 1 ])
          /\ UNCHANGED << call, out, connection, inflight >>
    \/ \E id \in 1..MaxStored : get_item(id)
          /\ UNCHANGED << call, out, connection, inflight >>
    \/ \E f \in { None, Some(1) } : get_all_items(f)
          /\ UNCHANGED << call, out, connection, inflight >>
    \/ \E f \in { None, Some(1) } : get_stats(f)
          /\ UNCHANGED << call, out, connection, inflight >>

SpecBatch == Init /\ [][NextBatch]_vars

\* Names of Program Increments: creations whose name check and INSERT are
\* two steps, so that the requests of two clients interleave in every
\* way, updates that give a new name, and the seeding of the sample data.
NextRace ==
    \/ \E c \in Clients :
          \E p \in { PIPayload("PI18", 1, 2, "Planning"),
                      PIPayload("PI19", 1, 2, "Planning") } :
             create_pi_check(c, p) /\ UNCHANGED << call, out, connection >>
    \/ \E c \in Clients :
          create_pi_insert(c) /\ UNCHANGED << call, out, connection >>
    \/ \E id \in PIIds : \E name \in PINames :
          update_pi(id, Kw1("name", Some(name)))
          /\ UNCHANGED << call, out, connection, inflight >>
    \/ /\ issued_items = 0
       /\ get_sample_data
       /\ UNCHANGED << call, out, connection, inflight >>

SpecRace == Init /\ [][NextRace]_vars

\* Program Increments and the transaction they are written in: creations,
\* updates, deletions and reads, and the creation of an item, which
\* commits when it is accepted and aborts the transaction when it is not.
NextPI ==
    \/ \E p \in { PIPayload("PI18", 1, 2, "Planning"),
                  PIPayload("PI18", 1, 1, "Active") } :
          create_pi(p) /\ UNCHANGED << call, out, connection, inflight >>
    \/ \E patch \in PIUpdateInputs :
          update_pi(1, patch) /\ UNCHANGED << call, out, connection, inflight >>
    \/ get_pi_request(1) /\ UNCHANGED << call, out, connection, inflight >>
    \/ delete_pi(1) /\ UNCHANGED << call, out, connection, inflight >>
    \/ \E id \in { 1, MaxPis + 1 } :
          create_item([ P1 EXCEPT !.program_increment_id = id ])
          /\ UNCHANGED << call, out, connection, inflight >>

SpecPI == Init /\ [][NextPI]_vars

\* Items and the Program Increments they name: creations and deletions of
\* both, for Program Increments that are stored and for one that never
\* is, and updates that move the first item to another Program Increment.
NextRef ==
    \/ \E name \in PINames :
          create_pi(PIPayload(name, 1, 2, "Planning"))
          /\ UNCHANGED << call, out, connection, inflight >>
    \/ \E id \in { 1, MaxPis + 1 } :
          create_item([ P1 EXCEPT !.program_increment_id = id ])
          /\ UNCHANGED << call, out, connection, inflight >>
    \/ \E id \in { 2, MaxPis + 1 } :
          update_item(1, Kw1("program_increment_id", Some(id)))
          /\ UNCHANGED << call, out, connection, inflight >>
    \/ delete_item(1) /\ UNCHANGED << call, out, connection, inflight >>
    \/ \E id \in PIIds :
          delete_pi(id) /\ UNCHANGED << call, out, connection, inflight >>

SpecRef == Init /\ [][NextRef]_vars

\* Updates of one item by two clients: the read that starts update_item
\* and the UPDATE that follows it are two steps, so that the requests
\* interleave in every way.
NextConcurrent ==
    \/ create_pi(PIPayload("PI18", 1, 2, "Planning"))
          /\ UNCHANGED << call, out, connection, inflight >>
    \/ create_item([ P1 EXCEPT !.program_increment_id = 1 ])
          /\ UNCHANGED << call, out, connection, inflight >>
    \/ \E c \in Clients : \E patch \in ConcurrentUpdateInputs :
          update_item_read(c, 1, patch) /\ UNCHANGED << call, out, connection >>
    \/ \E c \in Clients :
          update_item_write(c) /\ UNCHANGED << call, out, connection >>

SpecConcurrent == Init /\ [][NextConcurrent]_vars

\* The sample data: the seeding, on a store that is empty, that holds
\* "PI18" created by a request, that holds an item of it, and on a
\* connection whose transaction is aborted.
NextSample ==
    \/ create_pi(PIPayload("PI18", 1, 2, "Planning"))
          /\ UNCHANGED << call, out, connection, inflight >>
    \/ \E id \in { 1, MaxPis + 1 } :
          create_item([ P1 EXCEPT !.program_increment_id = id ])
          /\ UNCHANGED << call, out, connection, inflight >>
    \/ get_sample_data /\ UNCHANGED << call, out, connection, inflight >>

SpecSample == Init /\ [][NextSample]_vars

\* The manager of the connection: connect and close (the lifespan of
\* main.py, reset_database of core/test_database.py), and requests to the
\* services while a connection is set.  A service method begins with
\* db.connect(); on a manager without a connection that is the step
\* connect, followed by the request.
NextManager ==
    \/ connect /\ UNCHANGED << call, out, inflight >>
    \/ close /\ UNCHANGED << call, out, inflight >>
    \/ /\ connection.open
       /\ create_pi(PIPayload("PI18", 1, 2, "Planning"))
       /\ UNCHANGED << call, out, connection, inflight >>
    \/ /\ connection.open
       /\ \E id \in { 1, MaxPis + 1 } :
             create_item([ P1 EXCEPT !.program_increment_id = id ])
       /\ UNCHANGED << call, out, connection, inflight >>
    \/ /\ connection.open
       /\ \E id \in ItemIds : get_item(id)
       /\ UNCHANGED << call, out, connection, inflight >>

SpecManager == Init /\ [][NextManager]_vars

(***************************************************************************)
(* Properties of the services (Spec).  ret is the last request and its     *)
(* answer; a read leaves the store as it was, so in a state whose ret is   *)
(* the answer of a read, tx is the store the read has seen.                *)
(***************************************************************************)
\* The answer of a get_all_items call that returned a list.
Listed == ret.op = "get_all_items" /\ ret.status = 200

\* The position of the row with this id in the order the query gave.
FetchPosition(id) == CHOOSE i \in DOMAIN ret.fetched : ret.fetched[i] = id

ListedRows ==
    IF ret.program_increment_id = None THEN tx.wsjf_items
    ELSE { r \in tx.wsjf_items :
             r.program_increment_id = ret.program_increment_id[1] }

ItemsOf(t, pi_id) == { r \in t.wsjf_items : r.program_increment_id = pi_id }

DuplicateNameOnUsableConnection ==
    [][ ( /\ ret'.op = "create_pi"
          /\ \E r \in tx.program_increments : r.name = ret'.pi.name )
        => /\ tx' = tx /\ db' = db
           /\ ( ~failed /\ ProgramIncrementCreateValid(ret'.pi) )
              => ret'.status = 409 ]_vars

\* ... and a statistics request for a missing Program Increment is
\* answered 404, and only such a request is.
StatsOnUsableConnection ==
    ( ret.op = "get_pi_stats" /\ ret.status # 500 )
    => /\ ret.status = 404 /\ ret.result = None
       /\ \A r \in tx.program_increments : r.id # ret.pi_id

(***************************************************************************)
(* Properties of update_item (SpecUpdate).  A step whose ret' is the       *)
(* answer of an update_item request is that request: tx is the store it    *)
(* found and tx' the store it left.                                        *)
(***************************************************************************)
\* The value a WSJFItem shows in field f when the patch has set f to v.
PatchedValue(f, v) ==
    IF f \in FactorFields THEN v[1].object
    ELSE IF f \in NullableColumns THEN v
    ELSE v[1]

JsonKeys(json) == { json[i][1] : i \in DOMAIN json }

\* The item that a patch makes of an item: the patch's values in the
\* fields it supplies.
Patched(item, patch) ==
    [ g \in DOMAIN item |->
        IF g \in DOMAIN patch THEN PatchedValue(g, patch[g]) ELSE item[g] ]

C13_DeleteNotFound ==
    [][ ret'.op = "delete_item"
        => /\ ( \A r \in tx.wsjf_items \cup db.wsjf_items : r.id # ret'.item_id )
              => /\ ret'.status = 404
                 /\ ret'.result = FALSE
                 /\ tx'.wsjf_items = tx.wsjf_items
           /\ ( \E r \in tx.wsjf_items \cap db.wsjf_items : r.id = ret'.item_id )
              => /\ ret'.status = 204
                 /\ ret'.result = TRUE
                 /\ tx'.wsjf_items
                      = { r \in tx.wsjf_items : r.id # ret'.item_id } ]_vars

\* What delete_item does on a usable connection: it answers 204 and True
\* whether or not the id is stored, and the rows left are the rows of the
\* other ids.
DeleteAlwaysTrue ==
    [][ ( ret'.op = "delete_item" /\ ~failed )
        => /\ ret'.status = 204
           /\ ret'.result = TRUE
           /\ tx'.wsjf_items = { r \in tx.wsjf_items : r.id # ret'.item_id }
           /\ db' = tx' ]_vars

\* The sum of the wsjf_score (in hundredths) of the items of these rows.
RECURSIVE ScoreSum(_)
ScoreSum(rows) ==
    IF rows = {} THEN 0
    ELSE LET r == CHOOSE x \in rows : TRUE
         IN  wsjf_score(row_to_wsjf_item(r)) + ScoreSum(rows \ {r})

\* The sum of the counts of a distribution.
RECURSIVE CountSum(_)
CountSum(dist) ==
    IF DOMAIN dist = {} THEN 0
    ELSE LET k == CHOOSE x \in DOMAIN dist : TRUE
         IN  dist[k] + CountSum([ x \in DOMAIN dist \ {k} |-> dist[x] ])

\* The Program Increment of the last statistics request is stored:
\* committed, and visible on the connection.
StatsOfStoredPI ==
    /\ ret.op = "get_pi_stats"
    /\ \E r \in tx.program_increments \cap db.program_increments :
          r.id = ret.pi_id

StatsQueryRejected ==
    [][ ( /\ ret'.op = "get_pi_stats"
          /\ \E r \in tx.program_increments : r.id = ret'.pi_id )
        => ( ret'.status = 500 /\ failed' /\ tx' = tx /\ db' = db ) ]_vars

\* The fields in which an item read back is compared with the item that
\* create_item returned.
RoundTripFields ==
    { "id", "subject", "description", "business_value", "time_criticality",
      "risk_reduction", "job_size", "status", "owner", "team",
      "program_increment_id" }

StatsEndpointDistributions ==
    ( ret.op = "get_stats" /\ ret.status = 200 )
    => LET stats == ret.result
           rows == SelectItems(tx, ret.program_increment_id)
       IN  /\ stats.total_items = Cardinality(rows)
           /\ \A r \in rows :
                 r.team # None
                 => /\ r.team[1] \in DOMAIN stats.team_distribution
                    /\ stats.team_distribution[r.team[1]]
                         = Cardinality({ x \in rows : x.team = r.team })
           /\ ( \E r \in rows : r.team = None )
              => /\ "Unassigned" \in DOMAIN stats.team_distribution
                 /\ stats.team_distribution["Unassigned"]
                      = Cardinality({ x \in rows : x.team = None })
           /\ DOMAIN stats.status_distribution = { r.status : r \in rows }
           /\ \A st \in DOMAIN stats.status_distribution :
                 stats.status_distribution[st]
                   = Cardinality({ x \in rows : x.status = st })
           /\ CountSum(stats.team_distribution) = stats.total_items
           /\ CountSum(stats.status_distribution) = stats.total_items
           /\ stats.avg_wsjf_score
                = IF rows = {} THEN 0
                  ELSE RoundHundredths(ScoreSum(rows), 100 * Cardinality(rows))

generate_excel_no_minimum(items) ==
    [ row \in 1..Len(items) |->
        LET item == items[row]
            is_high_priority ==
                item.priority # 0 /\ item.priority <= Len(items) \div 4
        IN  [ id |-> item.id, priority |-> item.priority,
              subject |-> item.subject, high_priority |-> is_high_priority ] ]

\* ExcelService.generate_excel: for row, item in enumerate(items, start=1)
\* the cells of the item, in high_priority_format when item.priority is
\* not 0 and at most max(1, len(items) // 4).
generate_excel(items) ==
    [ row \in 1..Len(items) |->
        LET item == items[row]
            is_high_priority ==
                /\ item.priority # 0
                /\ item.priority <= PyMax(<< 1, Len(items) \div 4 >>)
        IN  [ id |-> item.id, priority |-> item.priority,
              subject |-> item.subject, high_priority |-> is_high_priority ] ]

\* export_excel of api/endpoints.py, on the list get_all_items returned:
\* 404 when it is empty, the worksheet otherwise.
export_excel(items) ==
    IF items = << >> THEN [ status |-> 404 ]
    ELSE [ status |-> 200, rows |-> generate_excel(items) ]

\* Lists as get_all_items returns them: the lists of the ranking engine,
\* ranked; and longer ones, of up to MaxExport items of equal score with
\* the ids 1..n, which _add_priorities leaves in their order.
ExportLists ==
    { add_priorities(l) : l \in RankLists }
    \cup UNION { { [ i \in 1..n |-> WSJFItem(p, i, 0) @@ [ priority |-> i ] ] :
                     p \in ValidPayloads } : n \in (MaxRank + 1)..MaxExport }

ExportCalls ==
    { [ op |-> "export_excel", arg |-> l ] : l \in ExportLists }
    \cup { [ op |-> "generate_excel", arg |-> l ] : l \in ExportLists }

ExportInit ==
    /\ call \in ExportCalls
    /\ out = NoResult
    /\ StoreInit

Call_export_excel ==
    Pending("export_excel")
    /\ Return(export_excel(call.arg))

Call_generate_excel ==
    Pending("generate_excel")
    /\ Return(generate_excel(call.arg))

ExportNext ==
    \/ Call_export_excel
    \/ Call_generate_excel

\* The spreadsheet export, one call per behaviour.
SpecExport == ExportInit /\ [][ExportNext]_vars

SmallExportHighlighted ==
    /\ Returned("export_excel")
    /\ Len(call.arg) = 3
    /\ out.r.rows[1].high_priority /\ ~out.r.rows[2].high_priority

PatchedDate(row, patch, f) ==
    IF f \in DOMAIN patch /\ patch[f] # None THEN patch[f][1] ELSE row[f]

StoredJobSizeNotZero ==
    \A t \in { db, tx } : \A r \in t.wsjf_items :
        r.job_size[2] \in SevenValues

CascadeSeen ==
    /\ ret.op = "delete_pi" /\ ret.status = 204
    /\ \E r \in db.wsjf_items : r.program_increment_id = ret.pi_id
    /\ \A r \in tx.wsjf_items : r.program_increment_id # ret.pi_id

(***************************************************************************)
(* Commits and aborted transactions (SpecPI, SpecRef).                     *)
(***************************************************************************)
\* The answers that report a write as done.
Successful == { 200, 201, 204 }

ItemWritesCommitted ==
    [][ ( /\ ret'.op \in { "create_item", "update_item", "delete_item" }
          /\ ret'.status \in Successful )
        => db' = tx' ]_vars

\* A Program Increment whose creation was answered 201 is lost: the
\* transaction it was written in is aborted and it is not committed.
CreatedPILost ==
    /\ failed
    /\ \E r \in tx.program_increments : r \notin db.program_increments

AbortedForGood ==
    [][ failed => /\ failed'
                  /\ db' = db
                  /\ ret'.status \in { 422, 500 } ]_vars

(***************************************************************************)
(* Concurrent updates of one item (SpecConcurrent).                        *)
(***************************************************************************)
\* The answer of the UPDATE step of an update_item request.
Written(r) == r.op = "update_item" /\ "client" \in DOMAIN r

SampleSubjects ==
    { "User Authentication System", "Mobile App Dashboard",
      "Payment Gateway Integration" }

C29_ConnectKeepsData ==
    [][ ret'.op = "connect"
        => /\ db' = db
           /\ connection.open
                => connection' = connection /\ ret'.result = connection.id ]_vars

\* The part of C29 that the code keeps: a connect while a connection is
\* set returns that connection and leaves the tables as they are.
SameConnection ==
    [][ ( ret'.op = "connect" /\ connection.open )
        => /\ connection' = connection
           /\ ret'.result = connection.id
           /\ db' = db /\ tx' = tx ]_vars

\* Committed rows are gone after close and connect.
DataDropped ==
    /\ ret.op = "connect" /\ connection.id = 2
    /\ issued_items > 0
    /\ db = EmptyTables

====
